---- MODULE Spec2Model ----
(***************************************************************************)
(* Model of the agent run loop (src/src/core/agent.py), its tool dispatch, *)
(* the file tools (src/src/tools/file_tools.py), the code tools            *)
(* (src/src/tools/code_tools.py), the sandbox executor                     *)
(* (src/src/runtime/exectutor.py) and the model gateway                    *)
(* (src/src/llm/gateway.py).                                               *)
(*                                                                         *)
(* A Python str is a sequence of one-character strings when its length or  *)
(* its characters matter (paths, file contents) and a sequence of string   *)
(* pieces otherwise; an f-string is the concatenation (\o) of its pieces.  *)
(***************************************************************************)
EXTENDS Integers, Sequences, FiniteSets, TLC

(* ------------------------------------------------------------------ *)
(* Bounds                                                              *)
(* ------------------------------------------------------------------ *)

\* Largest value of settings.MAX_ITERATIONS a run is started with.
MaxIterations == 3

\* Cap on gateway calls of one run; above every permitted max_iterations,
\* so the loop of agent.py never meets it.
MaxChats == MaxIterations + 1

(* ------------------------------------------------------------------ *)
(* pathlib: Path(workspace) / filepath, resolve(), str()               *)
(* ------------------------------------------------------------------ *)

RECURSIVE SplitRec(_, _, _)
SplitRec(s, cur, acc) ==
    IF s = <<>>
    THEN (IF cur = <<>> THEN acc ELSE Append(acc, cur))
    ELSE IF Head(s) = "/"
         THEN SplitRec(Tail(s), <<>>, IF cur = <<>> THEN acc ELSE Append(acc, cur))
         ELSE SplitRec(Tail(s), Append(cur, Head(s)), acc)

\* The parts of a path string: pathlib drops empty and "." segments.
Parts(s) == SelectSeq(SplitRec(s, <<>>, <<>>), LAMBDA seg : seg # <<".">>)

IsAbsolute(s) == s # <<>> /\ Head(s) = "/"

\* Path(root) / s: an absolute right operand replaces the left one.
JoinPath(root, s) == IF IsAbsolute(s) THEN Parts(s) ELSE root \o Parts(s)

RECURSIVE ResolveRec(_, _)
ResolveRec(parts, acc) ==
    IF parts = <<>> THEN acc
    ELSE IF Head(parts) = <<".", ".">>
         THEN ResolveRec(Tail(parts),
                         IF acc = <<>> THEN acc ELSE SubSeq(acc, 1, Len(acc) - 1))
         ELSE ResolveRec(Tail(parts), Append(acc, Head(parts)))

\* Path.resolve() of an absolute path in a tree without symbolic links.
Resolve(parts) == ResolveRec(parts, <<>>)

RECURSIVE PathStrRec(_)
PathStrRec(parts) ==
    IF parts = <<>> THEN <<>> ELSE <<"/">> \o Head(parts) \o PathStrRec(Tail(parts))

\* str(path) of an absolute path.
PathStr(parts) == IF parts = <<>> THEN <<"/">> ELSE PathStrRec(parts)

\* str.startswith
StartsWith(a, b) == Len(a) >= Len(b) /\ SubSeq(a, 1, Len(b)) = b

\* path.parent
Parent(parts) == IF parts = <<>> THEN parts ELSE SubSeq(parts, 1, Len(parts) - 1)

(* ------------------------------------------------------------------ *)
(* The workspace and the file system                                   *)
(* ------------------------------------------------------------------ *)

\* Agent(workspace_path=...): the run's workspace root, "/w/a".
WorkspaceStr == <<"/", "w", "/", "a">>

\* FileTool.__init__: Path(workspace_path).absolute()
workspace_path_parts == Parts(WorkspaceStr)

DirNode == [kind |-> "dir"]
FileNode(content) == [kind |-> "file", content |-> content]

\* The tree after FileTool.__init__ has created the workspace root.
InitialFs ==
    [p \in {<<>>, <<<<"w">>>>, <<<<"w">>, <<"a">>>>} |-> DirNode]

Exists(fs, p) == p \in DOMAIN fs
IsDir(fs, p) == Exists(fs, p) /\ fs[p].kind = "dir"
IsFile(fs, p) == Exists(fs, p) /\ fs[p].kind = "file"

FsPut(fs, p, node) ==
    [q \in DOMAIN fs \cup {p} |-> IF q = p THEN node ELSE fs[q]]

Prefixes(p) == {SubSeq(p, 1, n) : n \in 0..Len(p)}

\* Path.mkdir(parents=True, exist_ok=True): raises, creating nothing, when p
\* exists and is no directory or when an ancestor of p is a file.
Mkdir(fs, p) ==
    IF IsFile(fs, p)
    THEN [raised |-> TRUE, fs |-> fs,
          exc |-> <<"[Errno 17] File exists: '">> \o PathStr(p) \o <<"'">>]
    ELSE IF \E q \in Prefixes(p) : IsFile(fs, q)
    THEN [raised |-> TRUE, fs |-> fs,
          exc |-> <<"[Errno 20] Not a directory: '">> \o PathStr(p) \o <<"'">>]
    ELSE [raised |-> FALSE, exc |-> <<>>,
          fs |-> [q \in DOMAIN fs \cup Prefixes(p) |->
                     IF q \in DOMAIN fs THEN fs[q] ELSE DirNode]]

RECURSIVE ReadTranslate(_)
\* open(path, 'r') reads in universal-newlines mode: "\r\n" and "\r" are
\* returned as "\n".
ReadTranslate(c) ==
    IF c = <<>> THEN <<>>
    ELSE IF Head(c) = "\r"
         THEN IF Len(c) >= 2 /\ c[2] = "\n"
              THEN <<"\n">> \o ReadTranslate(SubSeq(c, 3, Len(c)))
              ELSE <<"\n">> \o ReadTranslate(Tail(c))
         ELSE <<Head(c)>> \o ReadTranslate(Tail(c))

(* ------------------------------------------------------------------ *)
(* FileTool                                                            *)
(* ------------------------------------------------------------------ *)

\* FileTool._validate_path, lines 14-22: the resolved path, or ValueError.
ResolveAndCheck(filepath) ==
    LET full_path == Resolve(JoinPath(workspace_path_parts, filepath))
    IN  IF ~StartsWith(PathStr(full_path), PathStr(workspace_path_parts))
        THEN [raised |-> TRUE, path |-> full_path,
              exc |-> <<"Access denied: ">> \o filepath \o <<" is outside workspace">>]
        ELSE [raised |-> FALSE, path |-> full_path, exc |-> <<>>]

\* The path strings the tool calls of this model carry.
PathInputs == {<<"f">>, <<"d">>, <<".">>, <<".", ".", "/", "x">>}

\* ResolveAndCheck on those, computed once.
ValidatedInputs == [filepath \in PathInputs |-> ResolveAndCheck(filepath)]

\* FileTool._validate_path
ValidatePath(filepath) ==
    IF filepath \in PathInputs THEN ValidatedInputs[filepath]
    ELSE ResolveAndCheck(filepath)

\* FileTool.read_file: the text returned; the tree is not changed.
ReadFile(fs, filepath) ==
    LET v == ValidatePath(filepath)
    IN  IF v.raised THEN <<"Error reading file: ">> \o v.exc
        ELSE IF ~Exists(fs, v.path)
        THEN <<"Error: File ">> \o filepath \o <<" does not exist">>
        ELSE IF IsDir(fs, v.path)
        THEN <<"Error reading file: ", "[Errno 21] Is a directory: '">>
                 \o PathStr(v.path) \o <<"'">>
        ELSE ReadTranslate(fs[v.path].content)

\* FileTool.write_file: the text returned and the tree afterwards.
WriteFile(fs, filepath, content) ==
    LET v == ValidatePath(filepath)
        m == Mkdir(fs, Parent(v.path))
    IN  IF v.raised
        THEN [text |-> <<"Error writing file: ">> \o v.exc, fs |-> fs]
        ELSE IF m.raised
        THEN [text |-> <<"Error writing file: ">> \o m.exc, fs |-> fs]
        ELSE IF IsDir(m.fs, v.path)
        THEN [text |-> <<"Error writing file: ", "[Errno 21] Is a directory: '">>
                           \o PathStr(v.path) \o <<"'">>,
              fs |-> m.fs]
        ELSE [text |-> <<"Successfully wrote ", ToString(Len(content)),
                         " characters to ">> \o filepath,
              fs |-> FsPut(m.fs, v.path, FileNode(content))]

\* The entries of a directory: the paths directly below it.
Children(fs, p) == {q \in DOMAIN fs : Len(q) = Len(p) + 1 /\ Parent(q) = p}

\* The orders in which path.iterdir() may yield the entries of p.
IterdirOrders(fs, p) ==
    LET ch == Children(fs, p)
        n  == Cardinality(ch)
    IN  {o \in [1..n -> ch] : \A i, j \in 1..n : i # j => o[i] # o[j]}

RECURSIVE JsonEntries(_, _, _)
JsonEntries(fs, order, i) ==
    IF i > Len(order) THEN <<>>
    ELSE LET item == order[i]
             sz   == IF IsFile(fs, item) THEN Len(fs[item].content) ELSE 0
         IN  <<"\n  {\n    \"name\": \"">> \o item[Len(item)]
             \o <<"\",\n    \"type\": \"", IF IsDir(fs, item) THEN "dir" ELSE "file",
                  "\",\n    \"size\": ", ToString(sz), "\n  }",
                  IF i < Len(order) THEN "," ELSE "\n">>
             \o JsonEntries(fs, order, i + 1)

\* list_files without the is_dir() test: iterdir() on a file raises and the
\* except clause returns the text of the OS error.
ListFiles_NoDirCheck(fs, directory, order) ==
    LET v == ValidatePath(directory)
    IN  IF v.raised THEN <<"Error listing directory: ">> \o v.exc
        ELSE IF ~Exists(fs, v.path)
        THEN <<"Error: Directory ">> \o directory \o <<" does not exist">>
        ELSE IF ~IsDir(fs, v.path)
        THEN <<"Error listing directory: ", "[Errno 20] Not a directory: '">>
                 \o PathStr(v.path) \o <<"'">>
        ELSE <<"[">> \o JsonEntries(fs, order, 1) \o <<"]">>

\* FileTool.list_files; order is the order iterdir() yields the entries in.
ListFiles(fs, directory, order) ==
    LET v == ValidatePath(directory)
    IN  IF v.raised THEN <<"Error listing directory: ">> \o v.exc
        ELSE IF ~Exists(fs, v.path)
        THEN <<"Error: Directory ">> \o directory \o <<" does not exist">>
        ELSE IF ~IsDir(fs, v.path)
        THEN <<"Error: ">> \o directory \o <<" is not a directory">>
        ELSE <<"[">> \o JsonEntries(fs, order, 1) \o <<"]">>

\* FileTool.create_directory: the text returned and the tree afterwards.
CreateDirectory(fs, directory) ==
    LET v == ValidatePath(directory)
        m == Mkdir(fs, v.path)
    IN  IF v.raised
        THEN [text |-> <<"Error creating directory: ">> \o v.exc, fs |-> fs]
        ELSE IF m.raised
        THEN [text |-> <<"Error creating directory: ">> \o m.exc, fs |-> fs]
        ELSE [text |-> <<"Successfully created directory ">> \o directory, fs |-> m.fs]

\* path.unlink(): the entry is gone from the tree.
FsRemove(fs, p) == [q \in DOMAIN fs \ {p} |-> fs[q]]

\* FileTool.delete_file: the text returned and the tree afterwards.
DeleteFile(fs, filepath) ==
    LET v == ValidatePath(filepath)
    IN  IF v.raised
        THEN [text |-> <<"Error deleting file: ">> \o v.exc, fs |-> fs]
        ELSE IF ~Exists(fs, v.path)
        THEN [text |-> <<"Error: File ">> \o filepath \o <<" does not exist">>,
              fs |-> fs]
        ELSE IF IsDir(fs, v.path)
        THEN [text |-> <<"Error deleting file: ", "[Errno 21] Is a directory: '">>
                           \o PathStr(v.path) \o <<"'">>,
              fs |-> fs]
        ELSE [text |-> <<"Successfully deleted ">> \o filepath,
              fs |-> FsRemove(fs, v.path)]

(* ------------------------------------------------------------------ *)
(* CodeExecutor and CodeTools                                          *)
(* ------------------------------------------------------------------ *)

\* What self.client.containers.run(..., detach=True) can do: hand back a
\* container, or raise because no container could be created.
RunOutcomes ==
    {[raised |-> FALSE, cls |-> "", exc |-> <<>>],
     [raised |-> TRUE, cls |-> "APIError",
      exc |-> <<"500 Server Error: cannot connect to the Docker daemon">>]}

\* What container.wait(timeout=timeout) and the two container.logs() calls
\* can do: the exit status with the captured output, or a raised timeout.
WaitOutcomes ==
    {[raised |-> FALSE, cls |-> "", exc |-> <<>>,
      StatusCode |-> 0, stdout |-> <<"1\n">>, stderr |-> <<>>],
     [raised |-> FALSE, cls |-> "", exc |-> <<>>,
      StatusCode |-> 1, stdout |-> <<>>, stderr |-> <<"Traceback">>],
     [raised |-> TRUE, cls |-> "ReadTimeout", exc |-> <<"Read timed out.">>,
      StatusCode |-> 0, stdout |-> <<>>, stderr |-> <<>>]}

\* CodeExecutor.execute_python when containers.run raised: only
\* docker.errors.ContainerError is turned into a result, anything else
\* leaves the method as an exception (container is None in the finally).
ExecutePythonNoContainer(o) ==
    IF o.cls = "ContainerError"
    THEN [raised |-> FALSE, cls |-> "", exc |-> <<>>,
          result |-> [success |-> FALSE, error |-> o.exc]]
    ELSE [raised |-> TRUE, cls |-> o.cls, exc |-> o.exc,
          result |-> [success |-> FALSE, error |-> o.exc]]

\* CodeExecutor.execute_python once the container exists: the result dict,
\* or the exception that leaves the method after the finally block.
ExecutePythonWait(o) ==
    IF ~o.raised
    THEN [raised |-> FALSE, cls |-> "", exc |-> <<>>,
          result |-> [success |-> (o.StatusCode = 0), stdout |-> o.stdout,
                      stderr |-> o.stderr, exit_code |-> o.StatusCode]]
    ELSE IF o.cls = "ContainerError"
    THEN [raised |-> FALSE, cls |-> "", exc |-> <<>>,
          result |-> [success |-> FALSE, error |-> o.exc]]
    ELSE [raised |-> TRUE, cls |-> o.cls, exc |-> o.exc,
          result |-> [success |-> FALSE, error |-> o.exc]]

\* The keyword arguments of self.client.containers.run, lines 20-34.
RunKwargs ==
    [image |-> "python:3.11-slim", detach |-> TRUE, mem_limit |-> "512m",
     working_dir |-> "/workspace", network_disabled |-> FALSE, remove |-> FALSE]

\* The container the daemon holds after containers.run(**kwargs) returned.
CreatedContainer(id, kwargs) ==
    [id |-> id, image |-> kwargs.image, network_disabled |-> kwargs.network_disabled]

\* A finally block that removes the container only when the try body
\* returned.
Finally_SkipsOnRaise(c, o, existing) ==
    IF c # "none" /\ ~o.raised
    THEN [containers |-> {d \in existing : d.id # c}, events |-> <<"removed">>]
    ELSE [containers |-> existing, events |-> <<>>]

\* A finally block that removes nothing.
Finally_NoRemove(c, o, existing) == [containers |-> existing, events |-> <<>>]

\* CodeExecutor.execute_python, lines 55-57: the finally block, run however
\* the try body ended (o); c is the local container ("none" for None). The
\* containers the daemon holds afterwards and the removals made.
Finally(c, o, existing) ==
    IF c # "none"
    THEN [containers |-> {d \in existing : d.id # c}, events |-> <<"removed">>]
    ELSE [containers |-> existing, events |-> <<>>]

\* dict.get(key, default)
DictGet(d, key, default) == IF key \in DOMAIN d THEN d[key] ELSE default

\* CodeTools.execute_python: the text made from the executor's result.
FormatPythonResult(result) ==
    IF result.success
    THEN <<"Code executed successfully.\n\nOutput:\n">> \o result.stdout
    ELSE <<"Code execution failed.\n\nError:\n">>
         \o DictGet(result, "stderr", DictGet(result, "error", <<"Unknown error">>))

\* CodeTools.execute_bash calls self.executor.execute_bash, which
\* CodeExecutor does not define: the attribute lookup raises.
ExecuteBash(command) ==
    [raised |-> TRUE, cls |-> "AttributeError",
     exc |-> <<"'CodeExecutor' object has no attribute 'execute_bash'">>]

(* ------------------------------------------------------------------ *)
(* Tool calls and their arguments                                      *)
(* ------------------------------------------------------------------ *)

\* A value json.loads can return, or the model can pass already parsed.
DictValue(d) == [is_dict |-> TRUE, d |-> d]
ListValue == [is_dict |-> FALSE, d |-> [item |-> <<"1">>]]

\* Arguments as they reach Agent._execute_tool: a raw text or a value.
TextArgs(t) == [is_str |-> TRUE, text |-> t, value |-> ListValue]
ValueArgs(v) == [is_str |-> FALSE, text |-> "", value |-> v]

\* json.loads on the argument texts the model sends here.
JsonLoads(t) ==
    CASE t = "{\"filepath\": \"f\"}" ->
            [raised |-> FALSE, cls |-> "", exc |-> <<>>,
             value |-> DictValue([filepath |-> <<"f">>])]
      [] t = "{\"filepath\": \"f\", \"content\": \"hi\"}" ->
            [raised |-> FALSE, cls |-> "", exc |-> <<>>,
             value |-> DictValue([filepath |-> <<"f">>, content |-> <<"h", "i">>])]
      [] t = "{\"code\": \"print(1)\"}" ->
            [raised |-> FALSE, cls |-> "", exc |-> <<>>,
             value |-> DictValue([code |-> <<"print(1)">>])]
      [] t = "[1]" ->
            [raised |-> FALSE, cls |-> "", exc |-> <<>>, value |-> ListValue]
      [] t = "{bad" ->
            [raised |-> TRUE, cls |-> "JSONDecodeError", value |-> ListValue,
             exc |-> <<"Expecting property name enclosed in double quotes: ",
                       "line 1 column 2 (char 1)">>]
      [] OTHER ->
            [raised |-> TRUE, cls |-> "JSONDecodeError", value |-> ListValue,
             exc |-> <<"Expecting value: line 1 column 1 (char 0)">>]

\* arguments[key]
Subscript(v, key) ==
    IF ~v.is_dict
    THEN [raised |-> TRUE, cls |-> "TypeError", value |-> <<>>,
          exc |-> <<"list indices must be integers or slices, not str">>]
    ELSE IF key \notin DOMAIN v.d
    THEN [raised |-> TRUE, cls |-> "KeyError", value |-> <<>>,
          exc |-> <<"'", key, "'">>]
    ELSE [raised |-> FALSE, cls |-> "", value |-> v.d[key], exc |-> <<>>]

\* arguments.get("directory", ".")
GetDirectory(v) ==
    IF ~v.is_dict
    THEN [raised |-> TRUE, cls |-> "AttributeError", value |-> <<>>,
          exc |-> <<"'list' object has no attribute 'get'">>]
    ELSE [raised |-> FALSE, cls |-> "",
          value |-> DictGet(v.d, "directory", <<".">>), exc |-> <<>>]

\* Agent._execute_tool, lines 83-85: the arguments after the optional parse.
ParseArguments(arguments) ==
    IF arguments.is_str THEN JsonLoads(arguments.text)
    ELSE [raised |-> FALSE, cls |-> "", exc |-> <<>>, value |-> arguments.value]

\* The exception classes that derive from Exception; asyncio.CancelledError
\* derives from BaseException only.
IsException(cls) == cls # "CancelledError"

\* An except clause that names KeyError only.
ToolExceptCatches_KeyErrorOnly(cls) == cls = "KeyError"

\* Agent._execute_tool, line 113: "except Exception".
ToolExceptCatches(cls) == IsException(cls)

\* Agent._execute_tool, line 115: the text the except clause returns.
ToolErrorText(tool_name, exc) == <<"Error executing ", tool_name, ": ">> \o exc

\* The unknown-tool text without the name of the tool.
UnknownToolText_NoName(tool_name) == <<"Error: Unknown tool">>

\* Agent._execute_tool, line 111.
UnknownToolText(tool_name) == <<"Error: Unknown tool '", tool_name, "'">>

\* Agent._execute_tool, lines 82 and 113-115: what leaves the method when
\* its try body ended as b: a returned text, or an exception not caught.
ToolExcept(tool_name, b) ==
    IF b.raised /\ ToolExceptCatches(b.cls)
    THEN [raised |-> FALSE, cls |-> "", exc |-> <<>>,
          text |-> ToolErrorText(tool_name, b.exc), fs |-> b.fs]
    ELSE b

\* Whether _execute_tool reaches self.code_tool.execute_python(...), that
\* is, whether this call makes the executor create a container.
ReachesSandbox(tool_name, arguments) ==
    LET a == ParseArguments(arguments)
    IN  /\ ~a.raised
        /\ tool_name = "execute_python"
        /\ ~Subscript(a.value, "code").raised

\* Agent._execute_tool, lines 83-111, for every call that does not reach
\* the sandbox: how the try body ends and the tree afterwards. order is the
\* iterdir() order a list_files call meets.
ToolBody(tool_name, arguments, fs, order) ==
    LET a  == ParseArguments(arguments)
        fp == Subscript(a.value, "filepath")
        ct == Subscript(a.value, "content")
        dr == Subscript(a.value, "directory")
        gd == GetDirectory(a.value)
        cd == Subscript(a.value, "code")
        cm == Subscript(a.value, "command")
        Raise(r) == [raised |-> TRUE, cls |-> r.cls, exc |-> r.exc,
                     text |-> <<>>, fs |-> fs]
        Return(text, fs2) == [raised |-> FALSE, cls |-> "", exc |-> <<>>,
                              text |-> text, fs |-> fs2]
    IN  IF a.raised THEN Raise(a)
        ELSE CASE tool_name = "read_file" ->
                    IF fp.raised THEN Raise(fp)
                    ELSE Return(ReadFile(fs, fp.value), fs)
               [] tool_name = "write_file" ->
                    IF fp.raised THEN Raise(fp)
                    ELSE IF ct.raised THEN Raise(ct)
                    ELSE LET w == WriteFile(fs, fp.value, ct.value)
                         IN  Return(w.text, w.fs)
               [] tool_name = "list_files" ->
                    IF gd.raised THEN Raise(gd)
                    ELSE Return(ListFiles(fs, gd.value, order), fs)
               [] tool_name = "create_directory" ->
                    IF dr.raised THEN Raise(dr)
                    ELSE LET c == CreateDirectory(fs, dr.value)
                         IN  Return(c.text, c.fs)
               [] tool_name = "execute_python" ->
                    Raise(cd)
               [] tool_name = "execute_bash" ->
                    IF cm.raised THEN Raise(cm)
                    ELSE Raise(ExecuteBash(cm.value))
               [] OTHER ->
                    Return(UnknownToolText(tool_name), fs)

\* Agent._execute_tool for a call that does not reach the sandbox.
ExecuteTool(tool_name, arguments, fs, order) ==
    ToolExcept(tool_name, ToolBody(tool_name, arguments, fs, order))

\* The iterdir() orders a call can meet: those of the listed directory for
\* a list_files call that gets as far as iterating, one empty order else.
CallOrders(tool_name, arguments, fs) ==
    LET a == ParseArguments(arguments)
        gd == GetDirectory(a.value)
        v == ValidatePath(gd.value)
    IN  IF tool_name = "list_files" /\ ~a.raised /\ ~gd.raised /\ ~v.raised
           /\ IsDir(fs, v.path)
        THEN IterdirOrders(fs, v.path)
        ELSE {<<>>}

(* ------------------------------------------------------------------ *)
(* LLMGateway                                                          *)
(* ------------------------------------------------------------------ *)

\* A tool call as the provider's message carries it.
ProviderCall(id, name, arguments) ==
    [id |-> id, function |-> [name |-> name, arguments |-> arguments]]

\* response.choices[0].message; content and tool_calls may each be None.
ProviderMessage(content_none, content, calls_none, calls) ==
    [content_is_none |-> content_none, content |-> content,
     tool_calls_is_none |-> calls_none, tool_calls |-> calls]

\* A chat that drops the first message of the list it is given.
MessagesAfterChat_DropsFirst(messages) == Tail(messages)

\* LLMGateway.chat, lines 32-67: the list passed as messages, after the
\* call. chat hands it to acompletion and does nothing else with it.
MessagesAfterChat(messages) == messages

\* LLMGateway.chat, lines 44-63: the reply made from the provider's message.
GatewayReply(message) ==
    [content |-> IF message.content_is_none THEN <<>> ELSE message.content,
     tool_calls |->
        IF message.tool_calls_is_none THEN <<>>
        ELSE [i \in 1..Len(message.tool_calls) |->
                 [id |-> message.tool_calls[i].id,
                  name |-> message.tool_calls[i].function.name,
                  arguments |-> message.tool_calls[i].function.arguments]]]

(* ------------------------------------------------------------------ *)
(* The replies and failures the provider is given here                 *)
(* ------------------------------------------------------------------ *)

ReadF == ProviderCall("c1", "read_file", TextArgs("{\"filepath\": \"f\"}"))
ReadOutside ==
    ProviderCall("c2", "read_file",
                 ValueArgs(DictValue([filepath |-> <<".", ".", "/", "x">>])))
ReadBadJson == ProviderCall("c3", "read_file", TextArgs("{bad"))
WriteF ==
    ProviderCall("c4", "write_file",
                 TextArgs("{\"filepath\": \"f\", \"content\": \"hi\"}"))
WriteNoContent ==
    ProviderCall("c5", "write_file", ValueArgs(DictValue([filepath |-> <<"f">>])))
ListDefault ==
    ProviderCall("c6", "list_files", ValueArgs(DictValue([recursive |-> <<"1">>])))
MkdirD ==
    ProviderCall("c7", "create_directory",
                 ValueArgs(DictValue([directory |-> <<"d">>])))
PythonCode == ProviderCall("c8", "execute_python", TextArgs("{\"code\": \"print(1)\"}"))
PythonList == ProviderCall("c9", "execute_python", TextArgs("[1]"))
BashLs ==
    ProviderCall("c10", "execute_bash", ValueArgs(DictValue([command |-> <<"ls">>])))
UnknownDelete ==
    ProviderCall("c11", "delete_file", ValueArgs(DictValue([filepath |-> <<"f">>])))
UnknownBadJson == ProviderCall("c12", "search_web", TextArgs("{bad"))

\* The tool_calls arrays of the provider's messages.
ToolCallLists ==
    {<<ReadF>>, <<ReadOutside>>, <<ReadBadJson>>, <<WriteF>>, <<WriteNoContent>>,
     <<ListDefault>>, <<MkdirD>>, <<PythonCode>>, <<PythonList>>, <<BashLs>>,
     <<UnknownDelete>>, <<UnknownBadJson>>,
     <<WriteF, ReadF>>, <<UnknownDelete, ReadF>>, <<PythonCode, BashLs>>,
     <<PythonCode, PythonCode>>,
     <<MkdirD, WriteF, ListDefault>>}

\* The messages the provider answers with.
ProviderMessages ==
    {ProviderMessage(TRUE, <<>>, FALSE, calls) : calls \in ToolCallLists}
    \cup {ProviderMessage(FALSE, <<"I will read the file.">>, FALSE, <<ReadF>>),
          ProviderMessage(TRUE, <<>>, TRUE, <<>>),
          ProviderMessage(FALSE, <<"Done.">>, TRUE, <<>>),
          ProviderMessage(FALSE, <<"All good.">>, FALSE, <<>>)}

\* The exceptions acompletion raises.
ProviderErrors ==
    {[cls |-> "AuthenticationError", exc |-> <<"Incorrect API key provided">>]}

(* ------------------------------------------------------------------ *)
(* Agent: state                                                        *)
(* ------------------------------------------------------------------ *)

VARIABLES
    conversation_history,  \* self.conversation_history
    iteration_count,       \* self.iteration_count
    max_iterations,        \* self.max_iterations
    pc,                    \* where run() stands
    chat_messages,         \* the messages argument of the llm.chat call in flight
    response,              \* the local response of run()
    tc_idx,                \* position of the for loop in response["tool_calls"]
    fs,                    \* the file tree the workspace lives in
    container,             \* the local container of execute_python
    ret,                   \* what run() returned
    chat_calls,            \* history: llm.chat calls started in this run
    reply_log,             \* history: the replies received in this run
    dispatched,            \* history: _execute_tool calls started in this run
    sandbox_events,        \* history: what happened to containers in this run
    docker_containers,     \* the containers of this run the Docker daemon holds
    execution_log,         \* history: how each CodeExecutor.execute_python call ended
    provider_requests,     \* history: acompletion calls issued in this run
    file_op,               \* the last FileTool method called directly, and its result
    agents,                \* server.py: agents, the ids registered
    agent_results,         \* server.py: agent_results
    agent_objects,         \* the Agent instances create_agent has constructed
    lists,                 \* the list objects those instances hold, by reference
    run_calls              \* history: run() calls started on the agent

vars == <<conversation_history, iteration_count, max_iterations, pc,
          chat_messages, response, tc_idx, fs, container, ret,
          chat_calls, reply_log, dispatched, sandbox_events,
          docker_containers, execution_log, provider_requests, file_op,
          agents, agent_results, agent_objects, lists, run_calls>>

\* The state of the HTTP layer.
registry_vars == <<agents, agent_results, agent_objects, lists>>

\* Agent._default_system_prompt
SystemPrompt == <<"You are an autonomous AI agent with access to a workspace ...">>

\* The tasks run() is called with.
Tasks == {<<"Write hi to f and verify it.">>}

Message(role, content) == [role |-> role, content |-> content]

NoResponse == [content |-> <<>>, tool_calls |-> <<>>]
NotReturned == [returned |-> FALSE]

\* {} as a Python dict, and d[key] = value.
EmptyDict == [k \in {} |-> k]
DictSet(d, key, value) ==
    [k \in DOMAIN d \cup {key} |-> IF k = key THEN value ELSE d[k]]
NoFileOp == [op |-> "none"]

\* Agent.__init__
Init ==
    /\ conversation_history = <<Message("system", SystemPrompt)>>
    /\ iteration_count = 0
    /\ max_iterations \in 0..MaxIterations
    /\ pc = "init"
    /\ chat_messages = <<>>
    /\ response = NoResponse
    /\ tc_idx = 0
    /\ fs = InitialFs
    /\ container = "none"
    /\ ret = NotReturned
    /\ chat_calls = 0
    /\ reply_log = <<>>
    /\ dispatched = 0
    /\ sandbox_events = <<>>
    /\ docker_containers = {}
    /\ execution_log = <<>>
    /\ provider_requests = 0
    /\ file_op = NoFileOp
    /\ agents = {}
    /\ agent_results = EmptyDict
    /\ agent_objects = EmptyDict
    /\ lists = EmptyDict
    /\ run_calls = 0

(* ------------------------------------------------------------------ *)
(* Agent.run                                                           *)
(* ------------------------------------------------------------------ *)

\* The while condition with the ceiling off by one.
WhileCondition_OffByOne(count, max) == count <= max

\* The while condition of a loop without a ceiling.
WhileCondition_NoCeiling(count, max) == TRUE

\* Agent.run, line 138: the while condition.
WhileCondition(count, max) == count < max

\* The counter left as it is when the loop is entered.
NextIterationCount_NoIncrement(count) == count

\* Agent.run, line 139: self.iteration_count += 1
NextIterationCount(count) == count + 1

\* The result taken from the first message of the history, not the reply.
CompletedResult_FirstMessage(content, count, history) ==
    [success |-> TRUE, result |-> history[1].content, iterations |-> count,
     history |-> history]

\* Agent.run, lines 177-182.
CompletedResult(content, count, history) ==
    [success |-> TRUE, result |-> content, iterations |-> count, history |-> history]

MaxIterationsText == <<"Maximum iterations reached without completion">>

\* The ceiling reported as an error.
ExhaustedResult_WithError(count, history) ==
    [success |-> FALSE, error |-> MaxIterationsText, iterations |-> count,
     history |-> history]

\* Agent.run, lines 186-191.
ExhaustedResult(count, history) ==
    [success |-> FALSE, result |-> MaxIterationsText, iterations |-> count,
     history |-> history]

\* The failure result without the conversation.
FailedResult_NoHistory(exc, count, history) ==
    [success |-> FALSE, error |-> exc, iterations |-> count, history |-> <<>>]

\* Agent.run, lines 195-200.
FailedResult(exc, count, history) ==
    [success |-> FALSE, error |-> exc, iterations |-> count, history |-> history]

\* Agent.run, line 193: "except Exception".
RunExceptCatches(cls) == IsException(cls)

\* Agent.run, lines 167-170: the message a tool result is appended as.
ToolResultMessage(tool_name, result) ==
    Message("user", <<"Tool '", tool_name, "' result:\n">> \o result)

\* Agent.run, lines 127-135.
Run(task) ==
    /\ pc = "init"
    /\ conversation_history' = Append(conversation_history, Message("user", task))
    /\ iteration_count' = 0
    /\ pc' = "loop"
    /\ run_calls' = run_calls + 1
    /\ UNCHANGED <<max_iterations, chat_messages, response, tc_idx, fs, container,
                   ret, chat_calls, reply_log, dispatched, sandbox_events,
                   docker_containers, execution_log, provider_requests, file_op, registry_vars>>

\* Agent.run, lines 138-146: the loop is entered, the counter incremented
\* and llm.chat called with the conversation.
LoopEnter ==
    /\ pc = "loop"
    /\ WhileCondition(iteration_count, max_iterations)
    /\ chat_calls < MaxChats
    /\ iteration_count' = NextIterationCount(iteration_count)
    /\ chat_messages' = conversation_history
    /\ chat_calls' = chat_calls + 1
    /\ provider_requests' = provider_requests + 1
    /\ pc' = "awaiting_model"
    /\ UNCHANGED <<conversation_history, max_iterations, response, tc_idx, fs,
                   container, ret, reply_log, dispatched, sandbox_events,
                   docker_containers, execution_log, file_op, registry_vars, run_calls>>

\* Agent.run, lines 184-191: the while condition is false.
LoopExit ==
    /\ pc = "loop"
    /\ ~WhileCondition(iteration_count, max_iterations)
    /\ ret' = ExhaustedResult(iteration_count, conversation_history)
    /\ pc' = "done"
    /\ UNCHANGED <<conversation_history, iteration_count, max_iterations,
                   chat_messages, response, tc_idx, fs, container,
                   chat_calls, reply_log, dispatched, sandbox_events,
                   docker_containers, execution_log, provider_requests, file_op, registry_vars, run_calls>>

\* run() making its result from a reply without tool calls and going on
\* with the loop instead of returning.
ChatReturn_KeepsRunning(message) ==
    /\ pc = "awaiting_model"
    /\ LET r == GatewayReply(message)
           h == Append(conversation_history, Message("assistant", r.content))
       IN  /\ conversation_history' = h
           /\ response' = r
           /\ reply_log' = Append(reply_log, [at |-> Len(h), content |-> r.content,
                                              tool_calls |-> r.tool_calls])
           /\ IF r.tool_calls # <<>>
              THEN /\ tc_idx' = 1
                   /\ pc' = "tools"
                   /\ ret' = ret
              ELSE /\ tc_idx' = tc_idx
                   /\ pc' = "loop"
                   /\ ret' = CompletedResult(r.content, iteration_count, h)
    /\ UNCHANGED <<iteration_count, max_iterations, chat_messages, fs, container,
                   chat_calls, dispatched, sandbox_events,
                   docker_containers, execution_log, provider_requests, file_op,
                   registry_vars, run_calls>>

\* run() leaving out the tool calls of the reply to the last permitted
\* gateway call.
ChatReturn_SkipsLastTools(message) ==
    /\ pc = "awaiting_model"
    /\ LET r == GatewayReply(message)
           h == Append(conversation_history, Message("assistant", r.content))
       IN  /\ conversation_history' = h
           /\ response' = r
           /\ reply_log' = Append(reply_log, [at |-> Len(h), content |-> r.content,
                                              tool_calls |-> r.tool_calls])
           /\ IF r.tool_calls # <<>>
              THEN /\ tc_idx' = 1
                   /\ pc' = IF iteration_count < max_iterations THEN "tools" ELSE "loop"
                   /\ ret' = ret
              ELSE /\ tc_idx' = tc_idx
                   /\ pc' = "done"
                   /\ ret' = CompletedResult(r.content, iteration_count, h)
    /\ UNCHANGED <<iteration_count, max_iterations, chat_messages, fs, container,
                   chat_calls, dispatched, sandbox_events,
                   docker_containers, execution_log, provider_requests, file_op,
                   registry_vars, run_calls>>

\* LLMGateway.chat returns; Agent.run, lines 148-157 and 175-182.
ChatReturn(message) ==
    /\ pc = "awaiting_model"
    /\ LET r == GatewayReply(message)
           h == Append(MessagesAfterChat(conversation_history),
                       Message("assistant", r.content))
       IN  /\ conversation_history' = h
           /\ response' = r
           /\ reply_log' = Append(reply_log, [at |-> Len(h), content |-> r.content,
                                              tool_calls |-> r.tool_calls])
           /\ IF r.tool_calls # <<>>
              THEN /\ tc_idx' = 1
                   /\ pc' = "tools"
                   /\ ret' = ret
              ELSE /\ tc_idx' = tc_idx
                   /\ pc' = "done"
                   /\ ret' = CompletedResult(r.content, iteration_count, h)
    /\ UNCHANGED <<iteration_count, max_iterations, chat_messages, fs, container,
                   chat_calls, dispatched, sandbox_events,
                   docker_containers, execution_log, provider_requests, file_op, registry_vars, run_calls>>

\* Where run() goes when exception e leaves its try body: lines 193-200.
RunExcept(e) ==
    /\ RunExceptCatches(e.cls)
    /\ ret' = FailedResult(e.exc, iteration_count, conversation_history)
    /\ pc' = "done"

\* A failed gateway call retried: the loop goes round again.
ChatRaise_Retries(e) ==
    /\ pc = "awaiting_model"
    /\ pc' = "loop"
    /\ UNCHANGED <<conversation_history, iteration_count, max_iterations,
                   chat_messages, response, tc_idx, fs, container, ret,
                   chat_calls, reply_log, dispatched, sandbox_events,
                   docker_containers, execution_log, provider_requests, file_op, registry_vars, run_calls>>

\* A gateway that answers a failure of acompletion with a second request.
ChatRaise_GatewayRetries(e) ==
    /\ pc = "awaiting_model"
    /\ provider_requests < MaxChats
    /\ provider_requests' = provider_requests + 1
    /\ UNCHANGED <<conversation_history, iteration_count, max_iterations, pc,
                   chat_messages, response, tc_idx, fs, container, ret,
                   chat_calls, reply_log, dispatched, sandbox_events,
                   docker_containers, execution_log, file_op, registry_vars, run_calls>>

\* LLMGateway.chat raises (lines 65-67 re-raise what acompletion raised).
ChatRaise(e) ==
    /\ pc = "awaiting_model"
    /\ RunExcept(e)
    /\ conversation_history' = MessagesAfterChat(conversation_history)
    /\ UNCHANGED <<iteration_count, max_iterations,
                   chat_messages, response, tc_idx, fs, container,
                   chat_calls, reply_log, dispatched, sandbox_events,
                   docker_containers, execution_log, provider_requests, file_op, registry_vars, run_calls>>

\* The for loop walking the tool calls from the last to the first.
CurrentCall_Reversed == response.tool_calls[Len(response.tool_calls) + 1 - tc_idx]

\* The tool call the for loop of run() stands at.
CurrentCall == response.tool_calls[tc_idx]

\* The for loop putting the result in the place of the last message.
FinishTool_ReplacesLast(t) ==
    /\ conversation_history' =
          [conversation_history EXCEPT ![Len(conversation_history)] =
              ToolResultMessage(CurrentCall.name, t.text)]
    /\ tc_idx' = tc_idx + 1
    /\ pc' = IF tc_idx < Len(response.tool_calls) THEN "tools" ELSE "loop"
    /\ ret' = ret

\* The for loop moving on without appending the result.
FinishTool_DropsResult(t) ==
    /\ conversation_history' = conversation_history
    /\ tc_idx' = tc_idx + 1
    /\ pc' = IF tc_idx < Len(response.tool_calls) THEN "tools" ELSE "loop"
    /\ ret' = ret

\* Agent.run, lines 164-173, after _execute_tool ended as t: its text is
\* appended and the for loop moves on, or its exception leaves the loop.
FinishTool(t) ==
    IF t.raised
    THEN /\ RunExcept(t)
         /\ UNCHANGED <<conversation_history, tc_idx>>
    ELSE /\ conversation_history' =
                Append(conversation_history, ToolResultMessage(CurrentCall.name, t.text))
         /\ tc_idx' = tc_idx + 1
         /\ pc' = IF tc_idx < Len(response.tool_calls) THEN "tools" ELSE "loop"
         /\ ret' = ret

\* One pass of the for loop for a call that creates no container.
ToolStep ==
    /\ pc = "tools"
    /\ ~ReachesSandbox(CurrentCall.name, CurrentCall.arguments)
    /\ \E t \in {ExecuteTool(CurrentCall.name, CurrentCall.arguments, fs, order) :
                    order \in CallOrders(CurrentCall.name, CurrentCall.arguments, fs)} :
          /\ FinishTool(t)
          /\ fs' = t.fs
    /\ dispatched' = dispatched + 1
    /\ UNCHANGED <<iteration_count, max_iterations, chat_messages, response,
                   container, chat_calls, reply_log, sandbox_events,
                   docker_containers, execution_log, provider_requests, file_op, registry_vars, run_calls>>

\* What leaves _execute_tool when execute_python ended as x.
PythonToolEnd(x) ==
    ToolExcept("execute_python",
               [raised |-> x.raised, cls |-> x.cls, exc |-> x.exc,
                text |-> IF x.raised THEN <<>> ELSE FormatPythonResult(x.result),
                fs |-> fs])

\* CodeExecutor.execute_python, lines 18-34: containers.run is called.
SandboxCreate(o) ==
    /\ pc = "tools"
    /\ ReachesSandbox(CurrentCall.name, CurrentCall.arguments)
    /\ IF o.raised
       THEN /\ \E x \in {ExecutePythonNoContainer(o)} :
                  /\ \E t \in {PythonToolEnd(x)} : FinishTool(t)
                  /\ execution_log' = Append(execution_log, [outcome |-> o, end |-> x])
            /\ \E f \in {Finally("none", o, docker_containers)} :
                  /\ docker_containers' = f.containers
                  /\ sandbox_events' =
                        Append(sandbox_events, "create_failed") \o f.events
            /\ container' = "none"
       ELSE /\ \E id \in {ToString(Len(execution_log) + 1)} :
                  /\ container' = id
                  /\ docker_containers' =
                        docker_containers \cup {CreatedContainer(id, RunKwargs)}
            /\ sandbox_events' = Append(sandbox_events, "created")
            /\ pc' = "sandbox"
            /\ UNCHANGED <<conversation_history, tc_idx, ret, execution_log>>
    /\ dispatched' = dispatched + 1
    /\ UNCHANGED <<iteration_count, max_iterations, chat_messages, response, fs,
                   chat_calls, reply_log, provider_requests, file_op, registry_vars, run_calls>>

\* CodeExecutor.execute_python, lines 36-57: wait, logs, and the finally
\* block that removes the container.
SandboxWait(o) ==
    /\ pc = "sandbox"
    /\ \E x \in {ExecutePythonWait(o)} :
          /\ \E t \in {PythonToolEnd(x)} : FinishTool(t)
          /\ execution_log' = Append(execution_log, [outcome |-> o, end |-> x])
    /\ \E f \in {Finally(container, o, docker_containers)} :
          /\ docker_containers' = f.containers
          /\ sandbox_events' = sandbox_events \o f.events
    /\ container' = "none"
    /\ UNCHANGED <<iteration_count, max_iterations, chat_messages, response, fs,
                   chat_calls, reply_log, dispatched, provider_requests, file_op, registry_vars, run_calls>>

Next ==
    \/ \E task \in Tasks : Run(task)
    \/ LoopEnter
    \/ LoopExit
    \/ \E message \in ProviderMessages : ChatReturn(message)
    \/ \E e \in ProviderErrors : ChatRaise(e)
    \/ ToolStep
    \/ \E o \in RunOutcomes : SandboxCreate(o)
    \/ \E o \in WaitOutcomes : SandboxWait(o)

Spec == Init /\ [][Next]_vars

\* The replies the liveness check lets the provider give: replies with one
\* and with two tool calls, of every kind of outcome, and a final reply.
LiveMessages ==
    {ProviderMessage(TRUE, <<>>, FALSE, <<UnknownDelete>>),
     ProviderMessage(TRUE, <<>>, FALSE, <<WriteF, ReadF>>),
     ProviderMessage(TRUE, <<>>, FALSE, <<PythonCode, BashLs>>),
     ProviderMessage(FALSE, <<"Done.">>, TRUE, <<>>)}

LiveNext ==
    \/ \E task \in Tasks : Run(task)
    \/ LoopEnter
    \/ LoopExit
    \/ \E message \in LiveMessages : ChatReturn(message)
    \/ \E e \in ProviderErrors : ChatRaise(e)
    \/ ToolStep
    \/ \E o \in RunOutcomes : SandboxCreate(o)
    \/ \E o \in WaitOutcomes : SandboxWait(o)

\* run() is called, and every step the loop can take is taken: each gateway
\* call and each tool call it starts returns or raises.
LiveSpec ==
    /\ Init
    /\ [][LiveNext]_vars
    /\ WF_vars(\E task \in Tasks : Run(task))
    /\ WF_vars(LoopEnter)
    /\ WF_vars(LoopExit)
    /\ WF_vars((\E message \in LiveMessages : ChatReturn(message))
                  \/ (\E e \in ProviderErrors : ChatRaise(e)))
    /\ WF_vars(ToolStep)
    /\ WF_vars(\E o \in RunOutcomes : SandboxCreate(o))
    /\ WF_vars(\E o \in WaitOutcomes : SandboxWait(o))

(* ------------------------------------------------------------------ *)
(* run() called again on the same Agent                                *)
(* ------------------------------------------------------------------ *)

\* Most run() calls made on one Agent.
MaxRuns == 2

\* A later run() call that leaves iteration_count where the call before
\* left it.
RunAgain_KeepsCount(task) ==
    /\ pc = "done"
    /\ run_calls < MaxRuns
    /\ conversation_history' = Append(conversation_history, Message("user", task))
    /\ iteration_count' = iteration_count
    /\ pc' = "loop"
    /\ run_calls' = run_calls + 1
    /\ ret' = NotReturned
    /\ chat_calls' = 0
    /\ reply_log' = <<>>
    /\ dispatched' = 0
    /\ provider_requests' = 0
    /\ sandbox_events' = <<>>
    /\ execution_log' = <<>>
    /\ UNCHANGED <<max_iterations, chat_messages, response, tc_idx, fs, container,
                   docker_containers, file_op, registry_vars>>

\* Agent.run, lines 127-135, called after an earlier call on the same
\* instance returned: the conversation is the one that call left, the task
\* is appended to it and the counter set to 0. The histories kept per run
\* start anew.
RunAgain(task) ==
    /\ pc = "done"
    /\ run_calls < MaxRuns
    /\ conversation_history' = Append(conversation_history, Message("user", task))
    /\ iteration_count' = 0
    /\ pc' = "loop"
    /\ run_calls' = run_calls + 1
    /\ ret' = NotReturned
    /\ chat_calls' = 0
    /\ reply_log' = <<>>
    /\ dispatched' = 0
    /\ provider_requests' = 0
    /\ sandbox_events' = <<>>
    /\ execution_log' = <<>>
    /\ UNCHANGED <<max_iterations, chat_messages, response, tc_idx, fs, container,
                   docker_containers, file_op, registry_vars>>

RerunNext ==
    \/ \E task \in Tasks : Run(task)
    \/ \E task \in Tasks : RunAgain(task)
    \/ LoopEnter
    \/ LoopExit
    \/ \E message \in LiveMessages : ChatReturn(message)
    \/ \E e \in ProviderErrors : ChatRaise(e)
    \/ ToolStep
    \/ \E o \in RunOutcomes : SandboxCreate(o)
    \/ \E o \in WaitOutcomes : SandboxWait(o)

\* An Agent on which run() is called, and called again after it returned.
RerunSpec == Init /\ [][RerunNext]_vars

(* ------------------------------------------------------------------ *)
(* FileTool called directly, method by method                          *)
(* ------------------------------------------------------------------ *)

\* The filepath and directory arguments: inside the workspace, the root,
\* above the root, in a sibling of the root whose name begins with the
\* root's name, and absolute outside the root.
FilePaths ==
    {<<"f">>, <<"d">>, <<"d", "/", "f">>, <<".">>,
     <<".", ".", "/", "x">>, <<".", ".", "/", "a", "b", "/", "f">>, <<"/", "x">>}

\* The content arguments: empty, two lines, and a line ending with carriage
\* return and line feed.
FileContents ==
    {<<>>, <<"a", "\n", "b">>, <<"a", "\r", "\n", "b">>}

\* What file_op keeps of a call: the method, its arguments, the text it
\* returned and the tree it started from.
FileOp(op, filepath, content, text, before) ==
    [op |-> op, filepath |-> filepath, content |-> content, text |-> text,
     before |-> before]

\* FileTool.read_file called with filepath.
CallReadFile(filepath) ==
    /\ pc = "init"
    /\ file_op' = FileOp("read_file", filepath, <<>>, ReadFile(fs, filepath), fs)
    /\ UNCHANGED <<conversation_history, iteration_count, max_iterations, pc,
                   chat_messages, response, tc_idx, fs, container, ret,
                   chat_calls, reply_log, dispatched, sandbox_events,
                   docker_containers, execution_log, provider_requests, registry_vars, run_calls>>

\* FileTool.write_file called with filepath and content.
CallWriteFile(filepath, content) ==
    /\ pc = "init"
    /\ \E w \in {WriteFile(fs, filepath, content)} :
          /\ fs' = w.fs
          /\ file_op' = FileOp("write_file", filepath, content, w.text, fs)
    /\ UNCHANGED <<conversation_history, iteration_count, max_iterations, pc,
                   chat_messages, response, tc_idx, container, ret,
                   chat_calls, reply_log, dispatched, sandbox_events,
                   docker_containers, execution_log, provider_requests, registry_vars, run_calls>>

\* FileTool.list_files called with directory.
CallListFiles(directory) ==
    /\ pc = "init"
    /\ \E order \in CallOrders("list_files",
                                ValueArgs(DictValue([directory |-> directory])), fs) :
          file_op' = FileOp("list_files", directory, <<>>,
                            ListFiles(fs, directory, order), fs)
    /\ UNCHANGED <<conversation_history, iteration_count, max_iterations, pc,
                   chat_messages, response, tc_idx, fs, container, ret,
                   chat_calls, reply_log, dispatched, sandbox_events,
                   docker_containers, execution_log, provider_requests, registry_vars, run_calls>>

\* FileTool.delete_file called with filepath.
CallDeleteFile(filepath) ==
    /\ pc = "init"
    /\ \E x \in {DeleteFile(fs, filepath)} :
          /\ fs' = x.fs
          /\ file_op' = FileOp("delete_file", filepath, <<>>, x.text, fs)
    /\ UNCHANGED <<conversation_history, iteration_count, max_iterations, pc,
                   chat_messages, response, tc_idx, container, ret,
                   chat_calls, reply_log, dispatched, sandbox_events,
                   docker_containers, execution_log, provider_requests, registry_vars, run_calls>>

\* FileTool.create_directory called with directory.
CallCreateDirectory(directory) ==
    /\ pc = "init"
    /\ \E x \in {CreateDirectory(fs, directory)} :
          /\ fs' = x.fs
          /\ file_op' = FileOp("create_directory", directory, <<>>, x.text, fs)
    /\ UNCHANGED <<conversation_history, iteration_count, max_iterations, pc,
                   chat_messages, response, tc_idx, container, ret,
                   chat_calls, reply_log, dispatched, sandbox_events,
                   docker_containers, execution_log, provider_requests, registry_vars, run_calls>>

FileNext ==
    \/ \E filepath \in FilePaths : CallReadFile(filepath)
    \/ \E filepath \in FilePaths : \E content \in FileContents :
          CallWriteFile(filepath, content)
    \/ \E directory \in FilePaths : CallListFiles(directory)
    \/ \E filepath \in FilePaths : CallDeleteFile(filepath)
    \/ \E directory \in FilePaths : CallCreateDirectory(directory)

\* A FileTool on the fresh workspace of an agent that has not run yet, its
\* methods called in any order.
FileInit == Init /\ max_iterations = MaxIterations

FileSpec == FileInit /\ [][FileNext]_vars

(* ------------------------------------------------------------------ *)
(* The HTTP layer: create_agent and run_agent_task of api/server.py,   *)
(* with each Agent an object of its own                                *)
(* ------------------------------------------------------------------ *)

\* Most POST /agent/create requests served.
MaxAgents == 2

\* The value of settings.MAX_ITERATIONS the server runs with.
ServerMaxIterations == 2

\* settings.WORKSPACE_ROOT
WorkspaceRoot == "./workspaces"

\* request.workspace_name; "" stands for None and for the empty string,
\* which "or" treats alike.
WorkspaceNames == {"", "shared"}

\* request.task
RequestTasks == {<<"Summarise the workspace.">>}

\* uuid.uuid4(): an id no agent constructed so far has.
Uuid4(objects) == "agent-" \o ToString(Cardinality(DOMAIN objects) + 1)

\* A list that every instance shares instead of a list of its own.
NewList_Shared(heap) == 1

\* "[]": the reference of a new list object.
NewList(heap) == Cardinality(DOMAIN heap) + 1

\* Agent.__init__, lines 21-44: the instance; conversation_history is the
\* reference of its list. task is the argument its background task will
\* call run() with.
NewAgent(agent_id, workspace_path, history_ref, task) ==
    [agent_id |-> agent_id, workspace_path |-> workspace_path, task |-> task,
     conversation_history |-> history_ref, iteration_count |-> 0,
     max_iterations |-> ServerMaxIterations, pc |-> "init",
     response |-> NoResponse, tc_idx |-> 0, ret |-> NotReturned]

\* The replies the provider gives the agents of the server.
ServerMessages ==
    {ProviderMessage(TRUE, <<>>, FALSE, <<ReadF>>),
     ProviderMessage(FALSE, <<"Done.">>, TRUE, <<>>)}

\* The text _execute_tool returns for a call of an agent of the server.
ServerToolText(call) == <<"Error: File f does not exist">>

\* One step of Agent.run on instance a whose conversation list holds l, as
\* Run, LoopEnter, LoopExit, ChatReturn, ChatRaise and ToolStep take it:
\* the instances and list contents it can lead to. task is the argument of
\* run(); the history of a result is the reference of the list.
AgentSteps(a, l, task) ==
    CASE a.pc = "init" ->
            {[agent |-> [a EXCEPT !.iteration_count = 0, !.pc = "loop"],
              list |-> Append(l, Message("user", task))]}
      [] a.pc = "loop" ->
            IF WhileCondition(a.iteration_count, a.max_iterations)
            THEN {[agent |-> [a EXCEPT !.iteration_count = NextIterationCount(@),
                                       !.pc = "awaiting_model"],
                   list |-> l]}
            ELSE {[agent |-> [a EXCEPT !.pc = "done",
                                       !.ret = ExhaustedResult(a.iteration_count,
                                                               a.conversation_history)],
                   list |-> l]}
      [] a.pc = "awaiting_model" ->
            {LET r == GatewayReply(m)
                 h == Append(MessagesAfterChat(l), Message("assistant", r.content))
             IN  IF r.tool_calls # <<>>
                 THEN [agent |-> [a EXCEPT !.response = r, !.tc_idx = 1, !.pc = "tools"],
                       list |-> h]
                 ELSE [agent |-> [a EXCEPT !.response = r, !.pc = "done",
                                           !.ret = CompletedResult(r.content,
                                                      a.iteration_count,
                                                      a.conversation_history)],
                       list |-> h]
             : m \in ServerMessages}
            \cup
            {[agent |-> [a EXCEPT !.pc = "done",
                                  !.ret = FailedResult(e.exc, a.iteration_count,
                                                       a.conversation_history)],
              list |-> MessagesAfterChat(l)]
             : e \in {x \in ProviderErrors : RunExceptCatches(x.cls)}}
      [] a.pc = "tools" ->
            {[agent |-> [a EXCEPT !.tc_idx = a.tc_idx + 1,
                                  !.pc = IF a.tc_idx < Len(a.response.tool_calls)
                                         THEN "tools" ELSE "loop"],
              list |-> Append(l, ToolResultMessage(
                                    a.response.tool_calls[a.tc_idx].name,
                                    ServerToolText(a.response.tool_calls[a.tc_idx])))]}
      [] OTHER -> {}

\* asyncio.CancelledError thrown into run() at its await of llm.chat: it
\* is no Exception, so the except clause of run() (line 193) lets it pass.
AgentCancelled(a) ==
    IF a.pc = "awaiting_model" /\ ~RunExceptCatches("CancelledError")
    THEN {[a EXCEPT !.pc = "cancelled"]}
    ELSE {}

\* The except clause of run_agent_task, line 47: "except Exception".
TaskExceptCatches(cls) == IsException(cls)

\* create_agent, lines 72-102, with Agent.__init__.
create_agent(workspace_name, task) ==
    /\ Cardinality(DOMAIN agent_objects) < MaxAgents
    /\ \E agent_id \in {Uuid4(agent_objects)} :
       \E ref \in {NewList(lists)} :
          LET name == IF workspace_name # "" THEN workspace_name ELSE agent_id
              workspace_path == <<WorkspaceRoot, name>>
              before == IF ref \in DOMAIN lists THEN lists[ref] ELSE <<>>
          IN  /\ agent_objects' =
                    DictSet(agent_objects, agent_id,
                            NewAgent(agent_id, workspace_path, ref, task))
              /\ lists' = DictSet(lists, ref,
                                  Append(before, Message("system", SystemPrompt)))
              /\ agents' = agents \cup {agent_id}
    /\ UNCHANGED <<conversation_history, iteration_count, max_iterations, pc,
                   chat_messages, response, tc_idx, fs, container, ret,
                   chat_calls, reply_log, dispatched, sandbox_events,
                   docker_containers, execution_log, provider_requests, file_op,
                   agent_results, run_calls>>

\* run_agent_task, lines 42-46: one step of the background task of agent
\* agent_id; when run() returns, its result is stored at once.
run_agent_task(agent_id) ==
    /\ agent_id \in DOMAIN agent_objects
    /\ LET a == agent_objects[agent_id]
       IN  \E s \in AgentSteps(a, lists[a.conversation_history], a.task) :
              /\ agent_objects' = DictSet(agent_objects, agent_id, s.agent)
              /\ lists' = DictSet(lists, a.conversation_history, s.list)
              /\ agent_results' =
                    IF s.agent.pc = "done"
                    THEN DictSet(agent_results, agent_id, s.agent.ret)
                    ELSE agent_results
    /\ UNCHANGED <<conversation_history, iteration_count, max_iterations, pc,
                   chat_messages, response, tc_idx, fs, container, ret,
                   chat_calls, reply_log, dispatched, sandbox_events,
                   docker_containers, execution_log, provider_requests, file_op,
                   agents, run_calls>>

\* The background task of agent agent_id is cancelled while it awaits the
\* gateway: the CancelledError leaves run() and, being no Exception, leaves
\* run_agent_task (lines 47-53) too; nothing is stored.
cancel_task(agent_id) ==
    /\ agent_id \in DOMAIN agent_objects
    /\ \E a2 \in AgentCancelled(agent_objects[agent_id]) :
          /\ agent_objects' = DictSet(agent_objects, agent_id, a2)
          /\ agent_results' =
                IF TaskExceptCatches("CancelledError")
                THEN DictSet(agent_results, agent_id,
                             [success |-> FALSE, error |-> <<>>,
                              iterations |-> a2.iteration_count])
                ELSE agent_results
    /\ UNCHANGED <<conversation_history, iteration_count, max_iterations, pc,
                   chat_messages, response, tc_idx, fs, container, ret,
                   chat_calls, reply_log, dispatched, sandbox_events,
                   docker_containers, execution_log, provider_requests, file_op,
                   agents, lists, run_calls>>

\* get_agent_status, lines 117-120.
get_agent_status(agent_id) ==
    IF agent_id \in DOMAIN agent_results
    THEN (IF DictGet(agent_results[agent_id], "success", FALSE)
          THEN "completed" ELSE "failed")
    ELSE "running"

\* list_agents, line 154: the status it gives agent_id.
list_agents_status(agent_id) ==
    IF agent_id \in DOMAIN agent_results THEN "completed" ELSE "running"

\* dict.pop(key, None)
DictPop(d, key) == [k \in DOMAIN d \ {key} |-> d[k]]

\* delete_agent, lines 166-176, for an id that is registered (any other is
\* answered 404 and changes nothing). The background task of the agent is
\* not touched: it keeps its Agent and goes on.
delete_agent(agent_id) ==
    /\ agent_id \in agents
    /\ agents' = agents \ {agent_id}
    /\ agent_results' = DictPop(agent_results, agent_id)
    /\ UNCHANGED <<conversation_history, iteration_count, max_iterations, pc,
                   chat_messages, response, tc_idx, fs, container, ret,
                   chat_calls, reply_log, dispatched, sandbox_events,
                   docker_containers, execution_log, provider_requests, file_op,
                   agent_objects, lists, run_calls>>

ServerNext ==
    \/ \E workspace_name \in WorkspaceNames : \E task \in RequestTasks :
          create_agent(workspace_name, task)
    \/ \E agent_id \in DOMAIN agent_objects : run_agent_task(agent_id)
    \/ \E agent_id \in DOMAIN agent_objects : cancel_task(agent_id)
    \/ \E agent_id \in agents : delete_agent(agent_id)

\* The server with no agent yet; the Agent of the single-run model has not
\* been started.
ServerInit == Init /\ max_iterations = MaxIterations

ServerSpec == ServerInit /\ [][ServerNext]_vars

(* ------------------------------------------------------------------ *)
(* The run state of the specification, read off the code's state       *)
(* ------------------------------------------------------------------ *)

Returned == pc = "done"

\* Replies received, and replies that carried tool calls.
replies == Len(reply_log)
tool_replies == Cardinality({i \in 1..Len(reply_log) : reply_log[i].tool_calls # <<>>})

RunState ==
    CASE pc = "init" -> "Initialized"
      [] pc = "loop" /\ iteration_count = 0 -> "Initialized"
      [] pc = "awaiting_model" -> "AwaitingModel"
      [] pc \in {"tools", "sandbox"} -> "ExecutingTools"
      [] pc = "loop" /\ iteration_count > 0 -> "ExecutingTools"
      [] pc = "done" /\ ret.success -> "Completed"
      [] pc = "done" /\ ~ret.success /\ "error" \in DOMAIN ret -> "Failed"
      [] OTHER -> "Exhausted"

\* Whether msg is the message run() appends for a result of tool tool_name.
IsToolResult(msg, tool_name) ==
    /\ msg.role = "user"
    /\ Len(msg.content) >= 3
    /\ SubSeq(msg.content, 1, 3) = <<"Tool '", tool_name, "' result:\n">>

\* The messages that follow the i-th reply's assistant message up to the
\* next reply's assistant message (or the end of the conversation).
ResultsAfter(i) ==
    (IF i < Len(reply_log) THEN reply_log[i + 1].at - 1 ELSE Len(conversation_history))
    - reply_log[i].at

\* The results appended so far, as pairs of reply and position in the
\* reply's tool_calls.
AppendedResults ==
    UNION {{<<i, j>> : j \in {k \in 1..Len(reply_log[i].tool_calls) : k <= ResultsAfter(i)}} :
              i \in 1..Len(reply_log)}

\* The gateway call in flight or ended had no reply: it raised.
GatewayFailed == pc # "awaiting_model" /\ chat_calls > replies

(* ------------------------------------------------------------------ *)
(* C1                                                                  *)
(* ------------------------------------------------------------------ *)

\* C1: a run never starts more than max_iterations gateway calls, whatever
\* the model answers; and a run with max_iterations = 3 whose every gateway
\* call was answered by a reply carrying tool calls returns Exhausted:
\* success false, the fixed ceiling text instead of a reply's text, no error,
\* iterations exactly 3 after exactly 3 gateway calls.
C1_IterationCeiling ==
    /\ chat_calls <= max_iterations
    /\ (Returned /\ max_iterations = 3 /\ replies = chat_calls /\ tool_replies = replies)
          => /\ RunState = "Exhausted"
             /\ ret.success = FALSE
             /\ ret.result = MaxIterationsText
             /\ "error" \notin DOMAIN ret
             /\ ret.iterations = 3
             /\ chat_calls = 3

C1_Witness ==
    /\ Returned
    /\ max_iterations = 3
    /\ chat_calls = 3
    /\ tool_replies = 3
    /\ RunState = "Exhausted"

(* ------------------------------------------------------------------ *)
(* C2                                                                  *)
(* ------------------------------------------------------------------ *)

\* C2: when every gateway call and every tool call the loop starts returns
\* or raises, every run eventually returns, also when every reply of the
\* model carries tool calls.
C2_Terminates == <>Returned

C2_Witness ==
    /\ Returned
    /\ RunState = "Exhausted"
    /\ max_iterations = MaxIterations
    /\ tool_replies = MaxIterations

(* ------------------------------------------------------------------ *)
(* C3                                                                  *)
(* ------------------------------------------------------------------ *)

\* C3: for every reply received, its assistant message is followed by the
\* result messages of its tool calls and nothing else up to the next
\* assistant message: the j-th of them is labelled with the name of the
\* j-th call of the reply's tool_calls; all n are there once the for loop is
\* over, and while it runs exactly the results of the calls before the
\* current one are there, so no call is started before the result of the
\* one before it has been appended.
C3_ResultsInCallOrder ==
    /\ \A i \in 1..Len(reply_log) :
          LET r == reply_log[i]
              n == Len(r.tool_calls)
              k == ResultsAfter(i)
          IN  /\ conversation_history[r.at] = Message("assistant", r.content)
              /\ k >= 0 /\ k <= n
              /\ \A j \in 1..k :
                    IsToolResult(conversation_history[r.at + j], r.tool_calls[j].name)
              /\ (i < Len(reply_log) \/ pc \notin {"tools", "sandbox"}) => k = n
              /\ (i = Len(reply_log) /\ pc \in {"tools", "sandbox"}) => k = tc_idx - 1
    /\ pc # "init" =>
          dispatched = (Len(conversation_history) - 2 - replies)
                       + (IF pc = "sandbox" THEN 1 ELSE 0)

C3_Witness ==
    /\ pc = "loop"
    /\ replies = 1
    /\ Len(reply_log[1].tool_calls) = 3
    /\ reply_log[1].tool_calls[1].name # reply_log[1].tool_calls[3].name
    /\ Len(conversation_history) = 6
    /\ IsToolResult(conversation_history[6], reply_log[1].tool_calls[3].name)

(* ------------------------------------------------------------------ *)
(* C4                                                                  *)
(* ------------------------------------------------------------------ *)

\* C4: iteration_count equals the number of gateway calls started in the
\* run, in every state: one per round-trip, none per tool call.
C4_CountsRoundTrips == iteration_count = chat_calls

C4_Witness ==
    /\ pc = "loop"
    /\ replies = 1
    /\ dispatched = 3
    /\ iteration_count = 1

(* ------------------------------------------------------------------ *)
(* C5                                                                  *)
(* ------------------------------------------------------------------ *)

\* C5: a reply without tool calls ends the run at once: it is the last
\* reply, run() has returned success with that reply's text as the result
\* and no error, nothing follows its assistant message, no gateway call was
\* started after it; when it is the first reply, iterations is 1 and the
\* history is exactly system prompt, task, assistant message.
C5_NoToolCallsCompletes ==
    \A i \in 1..Len(reply_log) :
        reply_log[i].tool_calls = <<>> =>
            /\ i = Len(reply_log)
            /\ Returned
            /\ RunState = "Completed"
            /\ ret.success = TRUE
            /\ ret.result = reply_log[i].content
            /\ "error" \notin DOMAIN ret
            /\ ret.iterations = i
            /\ chat_calls = i
            /\ reply_log[i].at = Len(conversation_history)
            /\ ret.history = conversation_history
            /\ i = 1 =>
                  /\ dispatched = 0
                  /\ \E task \in Tasks :
                        ret.history = <<[role |-> "system", content |-> SystemPrompt],
                                        [role |-> "user", content |-> task],
                                        [role |-> "assistant",
                                         content |-> reply_log[1].content]>>

C5_Witness ==
    /\ Returned
    /\ replies = 1
    /\ reply_log[1].tool_calls = <<>>
    /\ ret.success = TRUE
    /\ ret.result = <<"Done.">>
    /\ Len(ret.history) = 3

(* ------------------------------------------------------------------ *)
(* C6                                                                  *)
(* ------------------------------------------------------------------ *)

\* C6: the history run() returns has 2 + replies + dispatched tool calls
\* messages, one assistant message per reply; a reply with exactly one tool
\* call followed by a reply with none gives iterations 2 and the five
\* messages system, task, assistant, tool result, assistant.
C6_HistoryLength ==
    Returned =>
        /\ Len(ret.history) = 2 + replies + dispatched
        /\ Cardinality({i \in 1..Len(ret.history) : ret.history[i].role = "assistant"})
              = replies
        /\ (replies = 2 /\ Len(reply_log[1].tool_calls) = 1
                /\ reply_log[2].tool_calls = <<>>)
              => /\ ret.iterations = 2
                 /\ Len(ret.history) = 5
                 /\ ret.history[1].role = "system"
                 /\ ret.history[2].role = "user" /\ ret.history[2].content \in Tasks
                 /\ ret.history[3] = [role |-> "assistant",
                                      content |-> reply_log[1].content]
                 /\ IsToolResult(ret.history[4], reply_log[1].tool_calls[1].name)
                 /\ ret.history[5] = [role |-> "assistant",
                                      content |-> reply_log[2].content]

C6_Witness ==
    /\ Returned
    /\ replies = 2
    /\ Len(reply_log[1].tool_calls) = 1
    /\ reply_log[1].tool_calls[1].name = "write_file"
    /\ reply_log[2].tool_calls = <<>>
    /\ Len(ret.history) = 5

(* ------------------------------------------------------------------ *)
(* C7                                                                  *)
(* ------------------------------------------------------------------ *)

\* C7: once a gateway call has raised, run() has returned failure with the
\* error text and no result, no gateway call was started after the failing
\* one, no tool was dispatched after it, and the returned history and the
\* conversation are the messages the failing call was given.
C7_GatewayFailureFails ==
    GatewayFailed =>
        /\ Returned
        /\ RunState = "Failed"
        /\ ret.success = FALSE
        /\ ret.error \in {e.exc : e \in ProviderErrors}
        /\ "result" \notin DOMAIN ret
        /\ chat_calls = replies + 1
        /\ ret.iterations = chat_calls
        /\ ret.history = chat_messages
        /\ conversation_history = chat_messages
        /\ dispatched = Len(chat_messages) - 2 - replies

C7_Witness ==
    /\ GatewayFailed
    /\ Returned
    /\ replies = 1
    /\ dispatched = 2
    /\ Len(ret.history) = 5

(* ------------------------------------------------------------------ *)
(* C8                                                                  *)
(* ------------------------------------------------------------------ *)

\* get_file_tools_definition() + get_code_tools_definition()
DeclaredTools ==
    {"read_file", "write_file", "list_files", "create_directory",
     "execute_python", "execute_bash"}

\* The calls of undeclared tools whose result has been appended.
UnknownResults ==
    {ij \in AppendedResults :
        reply_log[ij[1]].tool_calls[ij[2]].name \notin DeclaredTools}

C9_ToolFailuresNotFatal ==
    /\ RunState = "Failed" => GatewayFailed
    /\ pc # "init" =>
          dispatched = Cardinality(AppendedResults) + (IF pc = "sandbox" THEN 1 ELSE 0)
    /\ \A ij \in AppendedResults :
          LET r == reply_log[ij[1]]
              c == r.tool_calls[ij[2]]
              a == ParseArguments(c.arguments)
              m == conversation_history[r.at + ij[2]]
              Label == <<"Tool '", c.name, "' result:\n">>
          IN  /\ m.role = "user"
              /\ a.raised =>
                    m.content = Label \o <<"Error executing ", c.name, ": ">> \o a.exc
              /\ (~a.raised /\ c.name = "write_file" /\ a.value.is_dict
                     /\ "content" \notin DOMAIN a.value.d) =>
                    m.content = Label \o <<"Error executing ", c.name, ": ",
                                           "'", "content", "'">>
              /\ (~a.raised /\ c.name = "read_file" /\ a.value.is_dict
                     /\ "filepath" \in DOMAIN a.value.d
                     /\ a.value.d.filepath = <<".", ".", "/", "x">>) =>
                    m.content = Label \o <<"Error reading file: ", "Access denied: ",
                                           ".", ".", "/", "x", " is outside workspace">>
              /\ ReachesSandbox(c.name, c.arguments) =>
                    m.content \in
                       {Label \o <<"Code executed successfully.\n\nOutput:\n", "1\n">>,
                        Label \o <<"Code execution failed.\n\nError:\n", "Traceback">>,
                        Label \o <<"Error executing ", c.name, ": ", "Read timed out.">>,
                        Label \o <<"Error executing ", c.name, ": ",
                          "500 Server Error: cannot connect to the Docker daemon">>}

C9_Witness ==
    /\ pc = "awaiting_model"
    /\ replies = 2
    /\ conversation_history[4].content =
          <<"Tool '", "execute_python", "' result:\n",
            "Code execution failed.\n\nError:\n", "Traceback">>
    /\ conversation_history[6].content =
          <<"Tool '", "read_file", "' result:\n",
            "Error executing ", "read_file", ": ",
            "Expecting property name enclosed in double quotes: ",
            "line 1 column 2 (char 1)">>

(* ------------------------------------------------------------------ *)
(* C10                                                                 *)
(* ------------------------------------------------------------------ *)

\* containers.run raised in this run: no container could be created.
ProvisionFailed == \E i \in 1..Len(sandbox_events) : sandbox_events[i] = "create_failed"

\* C10: once the sandbox could not be provisioned during an execute_python
\* call, the run has failed: run() has returned success false with an error
\* and no gateway call is started afterwards.
C10_ProvisionFailureFatal ==
    ProvisionFailed =>
        /\ Returned
        /\ RunState = "Failed"
        /\ ret.success = FALSE
        /\ "error" \in DOMAIN ret

(* ------------------------------------------------------------------ *)
(* C11                                                                 *)
(* ------------------------------------------------------------------ *)

\* The positions of event ev in sandbox_events.
EventsAt(ev) == {i \in 1..Len(sandbox_events) : sandbox_events[i] = ev}

\* The execute_python calls of the executor that ended after a container
\* had been created: those that got as far as container.wait.
ContainerExecutions ==
    {i \in 1..Len(execution_log) : execution_log[i].outcome \in WaitOutcomes}

\* C11: every container the executor created is removed exactly once
\* before execute_python is left, however the wait and the collection of the
\* output ended (exit 0, non-zero exit, raised timeout): each "created"
\* event is followed at once by one "removed" event unless the call is still
\* waiting, there is one removal per ended call that had a container, and
\* outside the call the daemon holds no container of the run.
C11_RemovedExactlyOnce ==
    /\ \A i \in EventsAt("created") :
          IF i = Len(sandbox_events)
          THEN pc = "sandbox"
          ELSE sandbox_events[i + 1] = "removed"
    /\ \A i \in EventsAt("removed") : i > 1 /\ sandbox_events[i - 1] = "created"
    /\ Cardinality(EventsAt("removed")) = Cardinality(ContainerExecutions)
    /\ pc # "sandbox" => docker_containers = {} /\ container = "none"
    /\ pc = "sandbox" => \A d \in docker_containers : d.id = container

C11_Witness ==
    /\ pc # "sandbox"
    /\ Len(execution_log) = 3
    /\ execution_log[1].outcome.cls = "ReadTimeout"
    /\ execution_log[1].end.raised
    /\ execution_log[2].outcome.raised = FALSE /\ execution_log[2].outcome.StatusCode = 1
    /\ execution_log[3].outcome.raised = FALSE /\ execution_log[3].outcome.StatusCode = 0
    /\ sandbox_events = <<"created", "removed", "created", "removed", "created", "removed">>
    /\ docker_containers = {}

(* ------------------------------------------------------------------ *)
(* C12                                                                 *)
(* ------------------------------------------------------------------ *)

\* C12: every execute_python call of the executor that had a container
\* returns a result and does not raise; when the wait timed out the result
\* has success false, and when the code exited non-zero the result is
\* success false with stdout, stderr and the numeric exit_code.
C12_TimeoutReturnsFailure ==
    \A i \in ContainerExecutions :
        LET e == execution_log[i]
        IN  /\ ~e.end.raised
            /\ e.outcome.raised => e.end.result.success = FALSE
            /\ (~e.outcome.raised /\ e.outcome.StatusCode # 0) =>
                  e.end.result = [success |-> FALSE, stdout |-> e.outcome.stdout,
                                  stderr |-> e.outcome.stderr,
                                  exit_code |-> e.outcome.StatusCode]

(* ------------------------------------------------------------------ *)
(* C13                                                                 *)
(* ------------------------------------------------------------------ *)

\* C13: the daemon never holds more than one container of the run, and
\* while a call waits on its container every container created before it
\* has been removed; so the second execute_python call of a reply starts
\* with no container left from the first.
C13_OneContainerLive ==
    /\ Cardinality(docker_containers) <= 1
    /\ \A i \in EventsAt("created") :
          Cardinality({j \in EventsAt("created") : j < i})
             = Cardinality({j \in EventsAt("removed") : j < i})

C13_Witness ==
    /\ pc = "sandbox"
    /\ tc_idx = 2
    /\ response.tool_calls[1].name = "execute_python"
    /\ response.tool_calls[2].name = "execute_python"
    /\ sandbox_events = <<"created", "removed", "created">>
    /\ Cardinality(docker_containers) = 1

(* ------------------------------------------------------------------ *)
(* C14                                                                 *)
(* ------------------------------------------------------------------ *)

\* C14: every container the executor creates has its network disabled.
C14_NetworkDeniedByDefault ==
    \A d \in docker_containers : d.network_disabled = TRUE

(* ------------------------------------------------------------------ *)
(* C15                                                                 *)
(* ------------------------------------------------------------------ *)

\* A FileTool method has been called.
FileToolCalled == file_op.op # "none"

\* Where (self.workspace_path / filepath).resolve() points.
FullPath(filepath) == Resolve(JoinPath(workspace_path_parts, filepath))

\* The path is the workspace root or lies below it, component by component.
WithinRoot(parts) ==
    /\ Len(parts) >= Len(workspace_path_parts)
    /\ SubSeq(parts, 1, Len(workspace_path_parts)) = workspace_path_parts

\* The text a method returns when _validate_path raised its ValueError.
IsAccessDenied(text, filepath) ==
    /\ Len(text) >= 2
    /\ SubSeq(text, 2, Len(text))
          = <<"Access denied: ">> \o filepath \o <<" is outside workspace">>

\* C15: a call of read_file, write_file, list_files, create_directory or
\* delete_file with a path that resolves outside the workspace root
\* (relative with ".." segments, or absolute) returns the access-denied
\* text and leaves the tree as it was: nothing created, written or deleted,
\* no parent directory made.
C15_OutsidePathsDenied ==
    (FileToolCalled /\ ~WithinRoot(FullPath(file_op.filepath))) =>
        /\ IsAccessDenied(file_op.text, file_op.filepath)
        /\ fs = file_op.before

(* ------------------------------------------------------------------ *)
(* C16                                                                 *)
(* ------------------------------------------------------------------ *)

\* C16: every path _validate_path accepts lies strictly below the
\* workspace root: within the root and not the root itself.
C16_AcceptedIsStrictDescendant ==
    (FileToolCalled /\ ~ValidatePath(file_op.filepath).raised) =>
        /\ WithinRoot(ValidatePath(file_op.filepath).path)
        /\ ValidatePath(file_op.filepath).path # workspace_path_parts

(* ------------------------------------------------------------------ *)
(* C17                                                                 *)
(* ------------------------------------------------------------------ *)

\* C17: read_file of a file in the workspace returns exactly the content
\* the last write_file to it wrote (the content the tree holds for it), be
\* it empty, of several lines or with carriage returns; and a write_file
\* that succeeds leaves the file with exactly the content it was given,
\* whatever the file held before.
C17_WriteReadRoundTrip ==
    /\ (file_op.op = "read_file" /\ WithinRoot(FullPath(file_op.filepath))
           /\ IsFile(fs, FullPath(file_op.filepath))) =>
          file_op.text = fs[FullPath(file_op.filepath)].content
    /\ (file_op.op = "write_file" /\ WithinRoot(FullPath(file_op.filepath))
           /\ file_op.text[1] = "Successfully wrote ") =>
          fs[FullPath(file_op.filepath)] = FileNode(file_op.content)

(* ------------------------------------------------------------------ *)
(* C18                                                                 *)
(* ------------------------------------------------------------------ *)

\* C18: read_file of a path that does not exist returns the text "Error:
\* File <path> does not exist"; list_files returns "Error: Directory <path>
\* does not exist" for a path that does not exist and "Error: <path> is not
\* a directory" for a file; each call returns a text, and read_file and
\* list_files never change the tree.
C18_MissingPathsReported ==
    /\ file_op.op \in {"read_file", "list_files"} => fs = file_op.before
    /\ (file_op.op = "read_file" /\ ~ValidatePath(file_op.filepath).raised
           /\ ~Exists(file_op.before, FullPath(file_op.filepath))) =>
          file_op.text = <<"Error: File ">> \o file_op.filepath \o <<" does not exist">>
    /\ (file_op.op = "list_files" /\ ~ValidatePath(file_op.filepath).raised
           /\ ~Exists(file_op.before, FullPath(file_op.filepath))) =>
          file_op.text = <<"Error: Directory ">> \o file_op.filepath
                            \o <<" does not exist">>
    /\ (file_op.op = "list_files" /\ ~ValidatePath(file_op.filepath).raised
           /\ IsFile(file_op.before, FullPath(file_op.filepath))) =>
          file_op.text = <<"Error: ">> \o file_op.filepath \o <<" is not a directory">>

C18_Witness ==
    /\ file_op.op = "list_files"
    /\ file_op.filepath = <<"d", "/", "f">>
    /\ IsFile(file_op.before, FullPath(<<"d", "/", "f">>))
    /\ file_op.text = <<"Error: ", "d", "/", "f", " is not a directory">>
    /\ fs = file_op.before

(* ------------------------------------------------------------------ *)
(* C19                                                                 *)
(* ------------------------------------------------------------------ *)

\* C19: the conversation handed to a gateway call is left as it was: while
\* the call is in flight and after it raised, the conversation is the very
\* sequence the call was given; after it returned, the conversation begins
\* with that sequence, same length, order and content, and run() has added
\* the assistant message right behind it.
C19_ChatLeavesMessages ==
    chat_calls > 0 =>
        /\ Len(conversation_history) >= Len(chat_messages)
        /\ SubSeq(conversation_history, 1, Len(chat_messages)) = chat_messages
        /\ pc = "awaiting_model" => conversation_history = chat_messages
        /\ GatewayFailed => conversation_history = chat_messages
        /\ replies = chat_calls =>
              /\ reply_log[replies].at = Len(chat_messages) + 1
              /\ conversation_history[Len(chat_messages) + 1].role = "assistant"

C19_Witness ==
    /\ pc = "tools"
    /\ chat_calls = 2
    /\ replies = 2
    /\ Len(chat_messages) = 5
    /\ conversation_history = Append(chat_messages, Message("assistant", response.content))

(* ------------------------------------------------------------------ *)
(* C20                                                                 *)
(* ------------------------------------------------------------------ *)

\* C20: one provider request is issued per loop iteration, so the requests
\* issued are as many as the gateway calls and the iterations; and once a
\* gateway call has failed no step of the run issues another request or
\* starts another gateway call.
C20_NoRetry ==
    /\ [](provider_requests = chat_calls /\ provider_requests = iteration_count)
    /\ [][GatewayFailed =>
             /\ provider_requests' = provider_requests
             /\ chat_calls' = chat_calls]_vars
    /\ [](GatewayFailed => Returned /\ provider_requests = replies + 1)

C20_Witness ==
    /\ GatewayFailed
    /\ Returned
    /\ provider_requests = 3
    /\ replies = 2
    /\ max_iterations = MaxIterations

(* ------------------------------------------------------------------ *)
(* C21                                                                 *)
(* ------------------------------------------------------------------ *)

\* Sequence a is a prefix of sequence b.
IsPrefix(a, b) == Len(a) <= Len(b) /\ SubSeq(b, 1, Len(a)) = a

\* C21: every step of a run (the loop, a tool dispatch, a gateway call
\* returning or raising) leaves the conversation it found as a prefix of
\* the conversation it leaves: nothing is removed, replaced or reordered.
C21_AppendOnly == [][IsPrefix(conversation_history, conversation_history')]_vars

C21_Witness ==
    /\ Returned
    /\ GatewayFailed
    /\ replies = 2
    /\ dispatched = 4
    /\ Len(conversation_history) = 8

(* ------------------------------------------------------------------ *)
(* C22                                                                 *)
(* ------------------------------------------------------------------ *)

\* What a run owns: its Agent instance and the content of the list its
\* conversation_history refers to.
RunView(objects, heap, agent_id) ==
    [agent |-> objects[agent_id],
     list |-> heap[objects[agent_id].conversation_history]]

\* C22: the agents constructed hold conversation lists of their own, and
\* every step of the server leaves the instance and conversation of each
\* run as they were, or changes those of exactly one run, and then to what a
\* step of run() (or its cancellation) makes of that run's own instance and
\* conversation alone, whatever the other runs hold.
C22_RunsIndependent ==
    /\ [](\A a, b \in DOMAIN agent_objects :
             a # b => agent_objects[a].conversation_history
                        # agent_objects[b].conversation_history)
    /\ [][\A id \in DOMAIN agent_objects :
             LET before == RunView(agent_objects, lists, id)
                 after  == RunView(agent_objects', lists', id)
             IN  \/ after = before
                 \/ /\ after \in AgentSteps(before.agent, before.list, before.agent.task)
                                  \cup {[agent |-> c, list |-> before.list] :
                                           c \in AgentCancelled(before.agent)}
                    /\ \A other \in DOMAIN agent_objects \ {id} :
                          RunView(agent_objects', lists', other)
                             = RunView(agent_objects, lists, other)]_vars

C22_Witness ==
    /\ DOMAIN agent_objects = {"agent-1", "agent-2"}
    /\ agent_objects["agent-1"].pc = "tools"
    /\ agent_objects["agent-1"].iteration_count = 2
    /\ Len(lists[agent_objects["agent-1"].conversation_history]) = 5
    /\ agent_objects["agent-2"].pc = "awaiting_model"
    /\ agent_objects["agent-2"].iteration_count = 1
    /\ Len(lists[agent_objects["agent-2"].conversation_history]) = 2

(* ------------------------------------------------------------------ *)
(* C23                                                                 *)
(* ------------------------------------------------------------------ *)

\* The run of agent agent_id has been created and has not ended.
RunActive(agent_id) == agent_objects[agent_id].pc \notin {"done", "cancelled"}

\* C23: two runs that are active at the same time never have the same
\* workspace root.
C23_WorkspacesPrivate ==
    \A a, b \in DOMAIN agent_objects :
        (a # b /\ RunActive(a) /\ RunActive(b)) =>
            agent_objects[a].workspace_path # agent_objects[b].workspace_path

(* ------------------------------------------------------------------ *)
(* C24                                                                 *)
(* ------------------------------------------------------------------ *)

\* C24: a run cancelled while it was suspended in a gateway call is
\* reported in a terminal state, not as running, and its agent with the
\* conversation collected so far is still registered.
C24_CancelledRunTerminal ==
    \A id \in DOMAIN agent_objects :
        agent_objects[id].pc = "cancelled" =>
            /\ get_agent_status(id) # "running"
            /\ id \in agents

(* ------------------------------------------------------------------ *)
(* C25                                                                 *)
(* ------------------------------------------------------------------ *)

\* C25: whatever way run() returned, its result has success, iterations and
\* history, history is the whole conversation at the return and iterations
\* is iteration_count; a result with success true has a result text and no
\* error, and the result returned after a gateway failure has success false,
\* an error text and no result.
C25_ResultShape ==
    Returned =>
        /\ {"success", "iterations", "history"} \subseteq DOMAIN ret
        /\ ret.history = conversation_history
        /\ ret.iterations = iteration_count
        /\ ret.success => "result" \in DOMAIN ret /\ "error" \notin DOMAIN ret
        /\ ret.success <=> (replies > 0 /\ reply_log[replies].tool_calls = <<>>)
        /\ GatewayFailed =>
              /\ ~ret.success
              /\ "error" \in DOMAIN ret
              /\ "result" \notin DOMAIN ret

C25_Witness ==
    /\ Returned
    /\ GatewayFailed
    /\ replies = 1
    /\ dispatched = 1
    /\ ret.iterations = 2
    /\ Len(ret.history) = 4
    /\ ret.history = conversation_history

(* ------------------------------------------------------------------ *)
(* C26                                                                 *)
(* ------------------------------------------------------------------ *)

\* The calls of the replies received so far.
CallsReceived ==
    UNION {{<<i, j>> : j \in 1..Len(reply_log[i].tool_calls)} : i \in 1..Len(reply_log)}

\* C26: a run that returned after every gateway call was answered with
\* tool calls stopped at the ceiling without an error: success false, the
\* ceiling text as result, no error field, iterations equal to
\* max_iterations, and as history the whole conversation with the result of
\* every tool call of every reply.
C26_CeilingIsCleanStop ==
    (Returned /\ ~GatewayFailed /\ tool_replies = replies) =>
        /\ ret.success = FALSE
        /\ "error" \notin DOMAIN ret
        /\ ret.result = MaxIterationsText
        /\ ret.iterations = max_iterations
        /\ replies = max_iterations
        /\ ret.history = conversation_history
        /\ AppendedResults = CallsReceived
        /\ Len(ret.history) = 2 + replies + Cardinality(CallsReceived)

C26_Witness ==
    /\ Returned
    /\ max_iterations = 2
    /\ tool_replies = 2
    /\ "error" \notin DOMAIN ret
    /\ ret.iterations = 2
    /\ Len(ret.history) = 8
    /\ IsToolResult(ret.history[8], "list_files")

(* ------------------------------------------------------------------ *)
(* C27                                                                 *)
(* ------------------------------------------------------------------ *)

\* The arguments of call c parse to a dict that has the required keys of
\* the declared tool c.name.
ValidArguments(c) ==
    LET a == ParseArguments(c.arguments)
        required == CASE c.name = "read_file" -> {"filepath"}
                      [] c.name = "write_file" -> {"filepath", "content"}
                      [] c.name = "list_files" -> {}
                      [] c.name = "create_directory" -> {"directory"}
                      [] c.name = "execute_python" -> {"code"}
                      [] c.name = "execute_bash" -> {"command"}
                      [] OTHER -> {}
    IN  ~a.raised /\ a.value.is_dict /\ required \subseteq DOMAIN a.value.d

\* C27: the result appended for a call of a declared tool with valid
\* arguments is never the unknown-tool text and never the text of a missing
\* handler: dispatch reached an operation of the file tools or the executor.
C27_PublishedToolsHandled ==
    \A ij \in AppendedResults :
        LET r == reply_log[ij[1]]
            c == r.tool_calls[ij[2]]
            m == conversation_history[r.at + ij[2]]
        IN  (c.name \in DeclaredTools /\ ValidArguments(c)) =>
                /\ m.content # <<"Tool '", c.name, "' result:\n",
                                 "Error: Unknown tool '", c.name, "'">>
                /\ m.content # <<"Tool '", c.name, "' result:\n",
                                 "Error executing ", c.name, ": ",
                                 "'CodeExecutor' object has no attribute 'execute_bash'">>

(* ------------------------------------------------------------------ *)
(* C28                                                                 *)
(* ------------------------------------------------------------------ *)

\* C28: every tool result in the conversation is a message of the role of
\* tool results, labelled with the name of its tool call, and the task is
\* the only message of role user.
C28_ToolResultRole ==
    /\ \A ij \in AppendedResults :
          LET r == reply_log[ij[1]]
              c == r.tool_calls[ij[2]]
              m == conversation_history[r.at + ij[2]]
          IN  /\ m.role = "tool"
              /\ SubSeq(m.content, 1, 3) = <<"Tool '", c.name, "' result:\n">>
    /\ \A i \in 1..Len(conversation_history) :
          conversation_history[i].role = "user" => i = 2

(* ------------------------------------------------------------------ *)
(* C29                                                                 *)
(* ------------------------------------------------------------------ *)

\* run() has made its result.
HasResult == ret # NotReturned

\* C29: once run() has made its result the run is over: no step starts a
\* gateway call, dispatches a tool, creates a container, appends to the
\* conversation or changes the result, the counter or the run state.
C29_TerminalStatesFinal ==
    /\ [](HasResult <=> RunState \in {"Completed", "Failed", "Exhausted"})
    /\ [][HasResult =>
             UNCHANGED <<conversation_history, iteration_count, pc, ret,
                         chat_calls, provider_requests, dispatched,
                         sandbox_events, docker_containers, fs>>]_vars

C29_Witness ==
    /\ HasResult
    /\ RunState = "Completed"
    /\ replies = 3
    /\ dispatched = 4

(* ------------------------------------------------------------------ *)
(* C30                                                                 *)
(* ------------------------------------------------------------------ *)

\* C30: when the run ends at the ceiling, the tool calls of the reply to
\* the last permitted gateway call have all been dispatched: the history
\* ends with their results, in the order of the calls, and the last gateway
\* call was given only the messages before that reply, so no gateway call
\* was given those results.
C30_LastToolsStillRun ==
    (Returned /\ ~GatewayFailed /\ tool_replies = replies /\ replies > 0) =>
        LET r == reply_log[replies]
            n == Len(r.tool_calls)
        IN  /\ ret.iterations = max_iterations
            /\ n > 0
            /\ Len(ret.history) = r.at + n
            /\ \A j \in 1..n : IsToolResult(ret.history[r.at + j], r.tool_calls[j].name)
            /\ Len(chat_messages) = r.at - 1
            /\ chat_calls = replies

C30_Witness ==
    /\ Returned
    /\ max_iterations = 1
    /\ replies = 1
    /\ Len(reply_log[1].tool_calls) = 2
    /\ Len(ret.history) = 5
    /\ IsToolResult(ret.history[4], "execute_python")
    /\ IsToolResult(ret.history[5], "execute_bash")
    /\ Len(chat_messages) = 2

(* ------------------------------------------------------------------ *)
(* C31                                                                 *)
(* ------------------------------------------------------------------ *)

\* C31: every id that has a result stored in agent_results is registered
\* in agents; so no result is stored for an id after its delete_agent.
C31_ResultsOnlyForRegistered == DOMAIN agent_results \subseteq agents

(* ------------------------------------------------------------------ *)
(* C32                                                                 *)
(* ------------------------------------------------------------------ *)

\* C32: for every registered agent the status endpoint and the list
\* endpoint give the same status: "running" while no result is stored, then
\* "completed" when the stored result has success true and "failed" when it
\* has not.
C32_EndpointsAgree ==
    \A id \in agents :
        LET expected == IF id \notin DOMAIN agent_results THEN "running"
                        ELSE IF agent_results[id].success THEN "completed"
                        ELSE "failed"
        IN  /\ get_agent_status(id) = expected
            /\ list_agents_status(id) = expected

(* ------------------------------------------------------------------ *)
(* C33                                                                 *)
(* ------------------------------------------------------------------ *)

\* The positions of the task messages in the conversation: the messages of
\* role user that are no tool results.
TaskMessages ==
    {i \in 1..Len(conversation_history) :
        /\ conversation_history[i].role = "user"
        /\ conversation_history[i].content \in Tasks}

\* C33: on an Agent, over run() calls repeated on it, the first message
\* of the conversation is the system message and no other message has role
\* system; there is one task message per run() call started; within each
\* call the gateway calls are at most max_iterations and iteration_count
\* counts them from 0; a step that starts a run() call appends the task and
\* nothing else and sets the counter to 0; and every step keeps the messages
\* that were there, those of earlier calls included.
C33_RepeatedRuns ==
    /\ [](/\ Len(conversation_history) >= 1
          /\ conversation_history[1] = [role |-> "system", content |-> SystemPrompt]
          /\ \A i \in 2..Len(conversation_history) :
                conversation_history[i].role # "system"
          /\ Cardinality(TaskMessages) = run_calls
          /\ chat_calls <= max_iterations
          /\ iteration_count = chat_calls)
    /\ [][run_calls' # run_calls =>
             /\ run_calls' = run_calls + 1
             /\ Len(conversation_history') = Len(conversation_history) + 1
             /\ conversation_history'[Len(conversation_history')].role = "user"
             /\ conversation_history'[Len(conversation_history')].content \in Tasks
             /\ iteration_count' = 0]_vars
    /\ [][/\ Len(conversation_history') >= Len(conversation_history)
           /\ SubSeq(conversation_history', 1, Len(conversation_history))
                 = conversation_history]_vars

C33_Witness ==
    /\ run_calls = 2
    /\ Returned
    /\ max_iterations = MaxIterations
    /\ iteration_count = MaxIterations
    /\ chat_calls = MaxIterations
    /\ \E i \in TaskMessages :
          /\ i > 2 + MaxIterations
          /\ conversation_history[i - 1].role = "user"
          /\ conversation_history[i - 1].content \notin Tasks

====
